---------------------------- MODULE Spec2Model ----------------------------
(***************************************************************************)
(* udpcan: a CAN <-> UDP converter (src/udpcan.c).                         *)
(*                                                                         *)
(* The module models                                                       *)
(*   - the wire codec pack_can_frame / unpack_can_frame on memory images   *)
(*     (byte sequences), with uninitialised stack memory as a              *)
(*     nondeterministic fill byte;                                         *)
(*   - startup: parse_config, bind_can, bind_udp, connect_udp and the      *)
(*     pfds table, over a process descriptor table in which socket()       *)
(*     returns the lowest free descriptor number;                          *)
(*   - the poll() loop of main with its two handlers udp_to_can and        *)
(*     can_to_udp.                                                         *)
(*                                                                         *)
(* Spec is the whole program.  SpecCodec applies the two codec functions   *)
(* to frames drawn from a bounded set.  SpecLive is Spec under the         *)
(* fairness of a sequential process.  SpecBridge is the event loop of one  *)
(* started bridge, fed with datagrams of every length.                     *)
(***************************************************************************)
EXTENDS Integers, Sequences, FiniteSets, TLC

VARIABLES
    pc,             \* position of main: see Pcs
    exit_msg,       \* message of the err()/errx() call that ended the process
    host_le,        \* TRUE on a little-endian host (decides htonl/ntohl)
    argv,           \* argv[1..argc-1], each a config string (token sequence)
    n_connections,  \* main: n_connections
    i,              \* main: the loop variable of both for loops
    connections,    \* main: connections[0 .. n_connections-1]
    pfds,           \* main: pfds[0 .. 2*n_connections-1]
    fds,            \* the process descriptor table: number -> socket or Closed
    rxq,            \* receive queue of every descriptor number
    arrivals,       \* number of frames/datagrams the environment has delivered
    wake,           \* the dispatches of the scan in progress, in order
    acq_failed,     \* some endpoint acquisition has failed (environment fact)
    c_pc,           \* SpecCodec: "frame", "packed", "unpacked", "aborted", "off"
    c_frame,        \* SpecCodec: the input struct can_frame
    c_packed,       \* SpecCodec: what pack_can_frame produced
    c_out           \* SpecCodec: what unpack_can_frame produced

vars == <<pc, exit_msg, host_le, argv, n_connections, i, connections, pfds,
          fds, rxq, arrivals, wake, acq_failed, c_pc, c_frame, c_packed, c_out>>

mainVars == <<pc, exit_msg, argv, n_connections, i, connections, pfds,
              fds, rxq, arrivals, wake, acq_failed>>

codecVars == <<c_pc, c_frame, c_packed, c_out>>

---------------------------------------------------------------------------
(* Bounds of the model *)

\* largest number of config arguments on the command line
MaxConn == 2
\* total number of frames and datagrams the environment delivers in a run
MaxArrivals == 2
\* largest number of addresses getaddrinfo resolves for a port
MaxAddrs == 2

---------------------------------------------------------------------------
(* Program constants *)

PACKED_CAN_FRAME_MAX_DATA_SIZE == 8
\* sizeof(struct packed_can_frame): uint32_t can_id + uint8_t data[8]
SIZEOF_PACKED_CAN_FRAME == 12
PACKED_CAN_FRAME_HDR_SIZE ==
    SIZEOF_PACKED_CAN_FRAME - PACKED_CAN_FRAME_MAX_DATA_SIZE
\* sizeof(struct can_frame), the length udp_to_can passes to send()
SIZEOF_CAN_FRAME == 16
\* the first descriptor number after stdin, stdout, stderr
FIRST_FD == 3
\* size_t wraps modulo SIZE_MOD; TLC integers are 32 bits wide, so the model
\* keeps the wrap-around of the subtraction with the widest modulus TLC holds
SIZE_MOD == 1073741824

---------------------------------------------------------------------------
(* Memory and integers *)

Min(a, b) == IF a < b THEN a ELSE b

\* A uint32_t is kept as its two 16-bit halves, so that all 32 bits fit.
U32(hi, lo) == [hi |-> hi, lo |-> lo]

\* the value whose bytes are those of x in the opposite order
bswap32(x) ==
    U32((x.lo % 256) * 256 + (x.lo \div 256),
        (x.hi % 256) * 256 + (x.hi \div 256))

\* the four bytes of a uint32_t object in memory, lowest address first
Store32(x) ==
    IF host_le
    THEN <<x.lo % 256, x.lo \div 256, x.hi % 256, x.hi \div 256>>
    ELSE <<x.hi \div 256, x.hi % 256, x.lo \div 256, x.lo % 256>>

\* the uint32_t object read from four bytes of memory
Load32(b) ==
    IF host_le
    THEN U32(b[4] * 256 + b[3], b[2] * 256 + b[1])
    ELSE U32(b[1] * 256 + b[2], b[3] * 256 + b[4])

htonl(x) == IF host_le THEN bswap32(x) ELSE x

ntohl(x) == IF host_le THEN bswap32(x) ELSE x

\* n bytes of memory nobody has written: every byte holds the fill byte g
Uninit(n, g) == [j \in 1..n |-> g]

\* memcpy(dst, src, n) on byte sequences: the first n bytes of dst replaced
memcpy(dst, src, n) ==
    [j \in 1..Len(dst) |-> IF j <= n THEN src[j] ELSE dst[j]]

\* a - b in size_t arithmetic
SizeSub(a, b) == (a - b + SIZE_MOD) % SIZE_MOD

\* (size_t)x for a ssize_t x
SizeCast(x) == (x + SIZE_MOD) % SIZE_MOD

\* the bytes the stack may hold where a local was never written
StackFill == {0, 204}

---------------------------------------------------------------------------
(* The codec *)

\* struct can_frame as the program sees it: can_id, can_dlc, data[8]
CanFrame(id, dlc, data) == [can_id |-> id, can_dlc |-> dlc, data |-> data]

\* a local struct can_frame before anything is written to it
UninitCanFrame(g) == CanFrame(U32(g * 256 + g, g * 256 + g), g, Uninit(8, g))

\* pack_can_frame with the id stored in host byte order
pack_can_frame_no_htonl(frame, packed_frame) ==
    LET with_id == Store32(frame.can_id) \o SubSeq(packed_frame, 5, 12)
    IN  IF ~(frame.can_dlc <= PACKED_CAN_FRAME_MAX_DATA_SIZE)
        THEN [aborted |-> TRUE, packed_frame |-> with_id, packed_frame_size |-> 0]
        ELSE [aborted |-> FALSE,
              packed_frame |->
                  SubSeq(with_id, 1, 4)
                  \o memcpy(SubSeq(with_id, 5, 12), frame.data, frame.can_dlc),
              packed_frame_size |-> frame.can_dlc + PACKED_CAN_FRAME_HDR_SIZE]

\* pack_can_frame asserting can_dlc < 8 instead of <= 8
pack_can_frame_strict_assert(frame, packed_frame) ==
    LET with_id == Store32(htonl(frame.can_id)) \o SubSeq(packed_frame, 5, 12)
    IN  IF ~(frame.can_dlc < PACKED_CAN_FRAME_MAX_DATA_SIZE)
        THEN [aborted |-> TRUE, packed_frame |-> with_id, packed_frame_size |-> 0]
        ELSE [aborted |-> FALSE,
              packed_frame |->
                  SubSeq(with_id, 1, 4)
                  \o memcpy(SubSeq(with_id, 5, 12), frame.data, frame.can_dlc),
              packed_frame_size |-> frame.can_dlc + PACKED_CAN_FRAME_HDR_SIZE]

\* pack_can_frame reporting can_dlc - header size instead of can_dlc + header
pack_can_frame_minus_hdr(frame, packed_frame) ==
    LET with_id == Store32(htonl(frame.can_id)) \o SubSeq(packed_frame, 5, 12)
    IN  IF ~(frame.can_dlc <= PACKED_CAN_FRAME_MAX_DATA_SIZE)
        THEN [aborted |-> TRUE, packed_frame |-> with_id, packed_frame_size |-> 0]
        ELSE [aborted |-> FALSE,
              packed_frame |->
                  SubSeq(with_id, 1, 4)
                  \o memcpy(SubSeq(with_id, 5, 12), frame.data, frame.can_dlc),
              packed_frame_size |->
                  SizeSub(frame.can_dlc, PACKED_CAN_FRAME_HDR_SIZE)]

pack_can_frame(frame, packed_frame) ==
    LET with_id == Store32(htonl(frame.can_id)) \o SubSeq(packed_frame, 5, 12)
    IN  IF ~(frame.can_dlc <= PACKED_CAN_FRAME_MAX_DATA_SIZE)
        THEN [aborted |-> TRUE, packed_frame |-> with_id, packed_frame_size |-> 0]
        ELSE [aborted |-> FALSE,
              packed_frame |->
                  SubSeq(with_id, 1, 4)
                  \o memcpy(SubSeq(with_id, 5, 12), frame.data, frame.can_dlc),
              packed_frame_size |-> frame.can_dlc + PACKED_CAN_FRAME_HDR_SIZE]

\* unpack_can_frame with the id taken as it lies in memory
unpack_can_frame_no_ntohl(packed_frame, packed_frame_size, frame) ==
    LET data_size == SizeSub(packed_frame_size, PACKED_CAN_FRAME_HDR_SIZE)
    IN  IF ~(packed_frame_size <= SIZEOF_PACKED_CAN_FRAME)
           \/ ~(data_size <= PACKED_CAN_FRAME_MAX_DATA_SIZE)
        THEN [aborted |-> TRUE, frame |-> frame]
        ELSE [aborted |-> FALSE,
              frame |->
                  CanFrame(Load32(SubSeq(packed_frame, 1, 4)),
                           data_size % 256,
                           memcpy(frame.data, SubSeq(packed_frame, 5, 12),
                                  data_size))]

unpack_can_frame(packed_frame, packed_frame_size, frame) ==
    LET data_size == SizeSub(packed_frame_size, PACKED_CAN_FRAME_HDR_SIZE)
    IN  IF ~(packed_frame_size <= SIZEOF_PACKED_CAN_FRAME)
           \/ ~(data_size <= PACKED_CAN_FRAME_MAX_DATA_SIZE)
        THEN [aborted |-> TRUE, frame |-> frame]
        ELSE [aborted |-> FALSE,
              frame |->
                  CanFrame(ntohl(Load32(SubSeq(packed_frame, 1, 4))),
                           data_size % 256,
                           memcpy(frame.data, SubSeq(packed_frame, 5, 12),
                                  data_size))]

---------------------------------------------------------------------------
(* Inputs of the codec specification *)

CodecIds ==
    {U32(0, 0), U32(0, 291), U32(0, 2047), U32(32768, 291),
     U32(4660, 22136), U32(65535, 65535)}

DataPatterns ==
    {<<222, 173, 190, 239, 1, 35, 69, 103>>,
     <<171, 171, 0, 255, 128, 127, 16, 1>>}

\* can_dlc 9 is what no classic CAN frame carries: it trips the assertion
CodecDlcs == 0..(PACKED_CAN_FRAME_MAX_DATA_SIZE + 1)

CodecFrames ==
    {CanFrame(id, dlc, p) : id \in CodecIds, dlc \in CodecDlcs, p \in DataPatterns}

---------------------------------------------------------------------------
(* Config strings *)

\* A string is a sequence of tokens; ":" is the one character parse_config
\* looks for.
Digit == <<"0", "1", "2", "3", "4", "5", "6", "7", "8", "9">>

ValidArg(k) ==
    <<"vcan", Digit[k + 1], ":", "888", Digit[k + 1], ":", "127.0.0.1", ":",
      "999", Digit[k + 1]>>

BadArg == <<"vcan0", ":", "8880", ":", "127.0.0.1">>

\* strchr(s, ':') from position from: the index of the first ":", 0 if none
strchr(s, from) ==
    IF \E j \in from..Len(s) : s[j] = ":"
    THEN CHOOSE j \in from..Len(s) :
             s[j] = ":" /\ \A h \in from..(j - 1) : s[h] # ":"
    ELSE 0

parse_config(config_str) ==
    LET p1 == strchr(config_str, 1)
        p2 == IF p1 = 0 THEN 0 ELSE strchr(config_str, p1 + 1)
        p3 == IF p2 = 0 THEN 0 ELSE strchr(config_str, p2 + 1)
    IN  IF p1 = 0 \/ p2 = 0 \/ p3 = 0
        THEN [ok |-> FALSE, config |-> <<>>]
        ELSE [ok |-> TRUE,
              config |->
                  [can_ifname |-> SubSeq(config_str, 1, p1 - 1),
                   in_port    |-> SubSeq(config_str, p1 + 1, p2 - 1),
                   out_host   |-> SubSeq(config_str, p2 + 1, p3 - 1),
                   out_port   |-> SubSeq(config_str, p3 + 1, Len(config_str))]]

str_config(config) ==
    config.can_ifname \o <<":">> \o config.in_port \o <<":">>
    \o config.out_host \o <<":">> \o config.out_port

\* the text "<can_id>#<data>": the id and the can_dlc data bytes it prints
\* (can_dlc <= 8 on every call: the kernel delivers and unpack_can_frame
\* builds no longer frame)
str_can_frame(frame) ==
    <<frame.can_id, "#", SubSeq(frame.data, 1, Min(frame.can_dlc, 8))>>

---------------------------------------------------------------------------
(* Descriptors and sockets *)

NoFd == -1

FdRange == FIRST_FD..(FIRST_FD + 3 * MaxConn - 1)

Closed == [kind |-> "closed", conn |-> NoFd]

Socket(kind, conn) == [kind |-> kind, conn |-> conn]

\* socket() returns the lowest descriptor number that is not open
LowestFree(t) ==
    CHOOSE f \in FdRange :
        t[f].kind = "closed" /\ \A g \in FdRange : g < f => t[g].kind # "closed"

Returned(sfd, t) == [exit |-> "", sfd |-> sfd, fds |-> t]

Exited(msg, t) == [exit |-> msg, sfd |-> NoFd, fds |-> t]

\* out: what the environment answers: "ok", or the call that fails
bind_can(conn, out, t) ==
    IF out = "socket" THEN Exited("socket", t)
    ELSE LET sfd == LowestFree(t)
             opened == [t EXCEPT ![sfd] = Socket("can", conn)]
         IN  IF out = "ioctl"
             THEN Exited("Failed to resolve CAN interface name", opened)
             ELSE IF out = "bind"
             THEN Exited("Failed to bind to CAN interface", opened)
             ELSE Returned(sfd, opened)

\* the for loop of bind_udp over the resolved addresses; results[j] is what
\* the environment answers for address j: "ok", "fail" (bind fails) or
\* "socket" (socket() fails)
RECURSIVE bind_udp_loop(_, _, _, _, _)
bind_udp_loop(conn, results, j, sfd, t) ==
    IF j > Len(results) THEN Returned(sfd, t)
    ELSE IF results[j] = "socket" THEN Exited("socket", t)
    ELSE IF results[j] = "ok"
         THEN LET s == LowestFree(t)
              IN  Returned(s, [t EXCEPT ![s] = Socket("udp_in", conn)])
         ELSE \* close(sfd); sfd = -1;
              bind_udp_loop(conn, results, j + 1, NoFd, t)

bind_udp(conn, gai_ok, results, t) ==
    IF ~gai_ok THEN Exited("Failed to resolve UDP port", t)
    ELSE LET r == bind_udp_loop(conn, results, 1, NoFd, t)
         IN  IF r.exit # "" THEN r
             ELSE IF r.sfd = NoFd THEN Exited("Failed to bind to UDP port", t)
             ELSE r

\* the for loop of connect_udp: after a failed connect the descriptor is
\* closed and sfd keeps its number
RECURSIVE connect_udp_loop(_, _, _, _, _)
connect_udp_loop(conn, results, j, sfd, t) ==
    IF j > Len(results) THEN Returned(sfd, t)
    ELSE IF results[j] = "socket" THEN Exited("socket", t)
    ELSE LET s == LowestFree(t)
         IN  IF results[j] = "ok"
             THEN Returned(s, [t EXCEPT ![s] = Socket("udp_out", conn)])
             ELSE \* close(sfd);
                  connect_udp_loop(conn, results, j + 1, s, t)

connect_udp(conn, gai_ok, results, t) ==
    IF ~gai_ok THEN Exited("Failed to resolve UDP address", t)
    ELSE LET r == connect_udp_loop(conn, results, 1, NoFd, t)
         IN  IF r.exit # "" THEN r
             ELSE IF r.sfd = NoFd
             THEN Exited("Failed to connect to UDP address", t)
             ELSE r

\* what the environment may answer for the addresses of one getaddrinfo
AddrResults ==
    UNION {[1..n -> {"ok", "fail", "socket"}] : n \in 1..MaxAddrs}

\* the two pollfd entries of connection k with the UDP descriptors mixed up
main_set_pfds_wrong_udp(p, k, conn) ==
    [p EXCEPT ![k * 2]     = [fd |-> conn.can_sfd, events |-> {"POLLIN"},
                              revents |-> {}],
              ![k * 2 + 1] = [fd |-> conn.out_sfd, events |-> {"POLLIN"},
                              revents |-> {}]]

\* main, lines 307-310: the two pollfd entries of connection k
main_set_pfds(p, k, conn) ==
    [p EXCEPT ![k * 2]     = [fd |-> conn.can_sfd, events |-> {"POLLIN"},
                              revents |-> {}],
              ![k * 2 + 1] = [fd |-> conn.in_sfd, events |-> {"POLLIN"},
                              revents |-> {}]]

---------------------------------------------------------------------------
(* What the environment delivers *)

\* datagrams that arrive on an IN_PORT: 0, 3, 5 and 14 bytes long
Datagrams ==
    {<<>>,
     <<0, 0, 1>>,
     <<0, 0, 0, 171, 171>>,
     <<128, 0, 7, 255, 1, 2, 3, 4, 5, 6, 7, 8, 9, 10>>}

\* frames that arrive on a CAN interface, as the kernel hands them to recv:
\* a classic CAN frame has can_dlc <= 8
BusFrames ==
    {CanFrame(U32(0, 291), 4, <<222, 173, 190, 239, 0, 0, 0, 0>>),
     CanFrame(U32(32768, 2047), 8, <<1, 2, 3, 4, 5, 6, 7, 8>>)}

---------------------------------------------------------------------------
(* System calls of the event loop *)

\* recv(sfd, buf, len, MSG_DONTWAIT [| MSG_TRUNC]): -1 when the queue is
\* empty or the environment fails the call, else the message at the head
\* and its real length
recv(sfd, env_ok) ==
    IF rxq[sfd] = <<>> \/ ~env_ok
    THEN [rc |-> -1, msg |-> <<>>]
    ELSE [rc |-> IF fds[sfd].kind = "can" THEN SIZEOF_CAN_FRAME
                 ELSE Len(Head(rxq[sfd])),
          msg |-> Head(rxq[sfd])]

\* the frame a CAN interface transmits for a struct can_frame written to it
OnBus(frame) ==
    [can_id |-> frame.can_id, can_dlc |-> frame.can_dlc,
     data |-> SubSeq(frame.data, 1, frame.can_dlc)]

\* send(sfd, buf, len, 0): TRUE when it succeeds.  A descriptor number that
\* is not open fails (EBADF); a raw CAN socket takes only a whole struct
\* can_frame with can_dlc <= 8 (EINVAL); an unconnected UDP socket has no
\* destination (EDESTADDRREQ); else the environment decides.
send(sfd, len, dlc, env_ok) ==
    IF sfd \notin FdRange THEN FALSE
    ELSE IF fds[sfd].kind = "closed" THEN FALSE
    ELSE IF fds[sfd].kind = "udp_in" THEN FALSE
    ELSE IF fds[sfd].kind = "can"
         THEN len = SIZEOF_CAN_FRAME
              /\ dlc <= PACKED_CAN_FRAME_MAX_DATA_SIZE /\ env_ok
    ELSE env_ok

\* the too-short test rejecting the empty datagram only
too_short_empty_only(size) == SizeCast(size) < 1

\* the too-short test letting a 3-byte datagram through
too_short_off_by_one(size) == SizeCast(size) < PACKED_CAN_FRAME_HDR_SIZE - 1

\* udp_to_can, line 250: size < PACKED_CAN_FRAME_HDR_SIZE, compared as size_t
too_short(size) == SizeCast(size) < PACKED_CAN_FRAME_HDR_SIZE

\* the truncation test against sizeof(struct can_frame)
too_long_vs_can_frame(size) == SizeCast(size) > SIZEOF_CAN_FRAME

\* the truncation test taking a datagram that just fits for too long
too_long_inclusive(size) == SizeCast(size) >= SIZEOF_PACKED_CAN_FRAME

\* udp_to_can, line 256: size > sizeof(packed_frame), compared as size_t
too_long(size) == SizeCast(size) > SIZEOF_PACKED_CAN_FRAME

Line(conn, dir, text) ==
    [who |-> str_config(conn.config), dir |-> dir, text |-> text]

\* what one call of a handler did
Done(lines, consumed, got, send_fd, sent, send_ok, aborted) ==
    [lines |-> lines, consumed |-> consumed, got |-> got, send_fd |-> send_fd,
     sent |-> sent, send_ok |-> send_ok, aborted |-> aborted]

\* udp_to_can without the return after a failed recv
udp_to_can_no_return(conn, env_recv_ok, g, env_send_ok) ==
    LET r == recv(conn.in_sfd, env_recv_ok)
        size0 == r.rc
        packed_frame ==
            memcpy(Uninit(SIZEOF_PACKED_CAN_FRAME, g), r.msg,
                   Min(size0, SIZEOF_PACKED_CAN_FRAME))
        truncated == too_long(size0)
        size == IF truncated THEN SIZEOF_PACKED_CAN_FRAME ELSE size0
        u == unpack_can_frame(packed_frame, size, UninitCanFrame(g))
        ok == send(conn.can_sfd, SIZEOF_CAN_FRAME, u.frame.can_dlc, env_send_ok)
        failed == IF r.rc = -1
                  THEN <<Line(conn, "UDP->CAN", <<"recv failed">>)>> ELSE <<>>
    IN  IF too_short(size0)
        THEN Done(failed \o <<Line(conn, "UDP->CAN", <<"message too short">>)>>,
                  r.rc # -1, r.msg, NoFd, <<>>, FALSE, FALSE)
        ELSE IF u.aborted
        THEN Done(failed, r.rc # -1, r.msg, NoFd, <<>>, FALSE, TRUE)
        ELSE Done(failed
                  \o (IF truncated
                      THEN <<Line(conn, "UDP->CAN", <<"message truncated">>)>>
                      ELSE <<>>)
                  \o <<Line(conn, "UDP->CAN", str_can_frame(u.frame))>>
                  \o (IF ok THEN <<>>
                      ELSE <<Line(conn, "UDP->CAN", <<"send failed">>)>>),
                  r.rc # -1, r.msg, conn.can_sfd, OnBus(u.frame), ok, FALSE)

udp_to_can(conn, env_recv_ok, g, env_send_ok) ==
    LET r == recv(conn.in_sfd, env_recv_ok)
        size0 == r.rc
        packed_frame ==
            memcpy(Uninit(SIZEOF_PACKED_CAN_FRAME, g), r.msg,
                   Min(size0, SIZEOF_PACKED_CAN_FRAME))
        truncated == too_long(size0)
        size == IF truncated THEN SIZEOF_PACKED_CAN_FRAME ELSE size0
        u == unpack_can_frame(packed_frame, size, UninitCanFrame(g))
        ok == send(conn.can_sfd, SIZEOF_CAN_FRAME, u.frame.can_dlc, env_send_ok)
    IN  IF r.rc = -1
        THEN Done(<<Line(conn, "UDP->CAN", <<"recv failed">>)>>,
                  FALSE, <<>>, NoFd, <<>>, FALSE, FALSE)
        ELSE IF too_short(size0)
        THEN Done(<<Line(conn, "UDP->CAN", <<"message too short">>)>>,
                  TRUE, r.msg, NoFd, <<>>, FALSE, FALSE)
        ELSE IF u.aborted
        THEN Done(IF truncated
                  THEN <<Line(conn, "UDP->CAN", <<"message truncated">>)>>
                  ELSE <<>>,
                  TRUE, r.msg, NoFd, <<>>, FALSE, TRUE)
        ELSE Done((IF truncated
                   THEN <<Line(conn, "UDP->CAN", <<"message truncated">>)>>
                   ELSE <<>>)
                  \o <<Line(conn, "UDP->CAN", str_can_frame(u.frame))>>
                  \o (IF ok THEN <<>>
                      ELSE <<Line(conn, "UDP->CAN", <<"send failed">>)>>),
                  TRUE, r.msg, conn.can_sfd, OnBus(u.frame), ok, FALSE)

\* can_to_udp treating a failed recv as fatal
can_to_udp_fatal_recv(conn, env_recv_ok, g, env_send_ok) ==
    LET r == recv(conn.can_sfd, env_recv_ok)
        frame == r.msg
        p == pack_can_frame(frame, Uninit(SIZEOF_PACKED_CAN_FRAME, g))
        ok == send(conn.out_sfd, p.packed_frame_size, 0, env_send_ok)
    IN  IF r.rc = -1
        THEN Done(<<Line(conn, "CAN->UDP", <<"recv failed">>)>>,
                  FALSE, <<>>, NoFd, <<>>, FALSE, TRUE)
        ELSE IF p.aborted
        THEN Done(<<Line(conn, "CAN->UDP", str_can_frame(frame))>>,
                  TRUE, frame, NoFd, <<>>, FALSE, TRUE)
        ELSE Done(<<Line(conn, "CAN->UDP", str_can_frame(frame))>>
                  \o (IF ok THEN <<>>
                      ELSE <<Line(conn, "CAN->UDP", <<"send failed">>)>>),
                  TRUE, frame, conn.out_sfd,
                  SubSeq(p.packed_frame, 1, p.packed_frame_size), ok, FALSE)

\* can_to_udp printing the frame only once the send has succeeded
can_to_udp_log_after_send(conn, env_recv_ok, g, env_send_ok) ==
    LET r == recv(conn.can_sfd, env_recv_ok)
        frame == r.msg
        p == pack_can_frame(frame, Uninit(SIZEOF_PACKED_CAN_FRAME, g))
        ok == send(conn.out_sfd, p.packed_frame_size, 0, env_send_ok)
    IN  IF r.rc = -1
        THEN Done(<<Line(conn, "CAN->UDP", <<"recv failed">>)>>,
                  FALSE, <<>>, NoFd, <<>>, FALSE, FALSE)
        ELSE IF p.aborted
        THEN Done(<<>>, TRUE, frame, NoFd, <<>>, FALSE, TRUE)
        ELSE Done(IF ok
                  THEN <<Line(conn, "CAN->UDP", str_can_frame(frame))>>
                  ELSE <<Line(conn, "CAN->UDP", <<"send failed">>)>>,
                  TRUE, frame, conn.out_sfd,
                  SubSeq(p.packed_frame, 1, p.packed_frame_size), ok, FALSE)

can_to_udp(conn, env_recv_ok, g, env_send_ok) ==
    LET r == recv(conn.can_sfd, env_recv_ok)
        frame == r.msg
        p == pack_can_frame(frame, Uninit(SIZEOF_PACKED_CAN_FRAME, g))
        ok == send(conn.out_sfd, p.packed_frame_size, 0, env_send_ok)
    IN  IF r.rc = -1
        THEN Done(<<Line(conn, "CAN->UDP", <<"recv failed">>)>>,
                  FALSE, <<>>, NoFd, <<>>, FALSE, FALSE)
        ELSE IF p.aborted
        THEN Done(<<Line(conn, "CAN->UDP", str_can_frame(frame))>>,
                  TRUE, frame, NoFd, <<>>, FALSE, TRUE)
        ELSE Done(<<Line(conn, "CAN->UDP", str_can_frame(frame))>>
                  \o (IF ok THEN <<>>
                      ELSE <<Line(conn, "CAN->UDP", <<"send failed">>)>>),
                  TRUE, frame, conn.out_sfd,
                  SubSeq(p.packed_frame, 1, p.packed_frame_size), ok, FALSE)

---------------------------------------------------------------------------
(* The program *)

Pcs == {"main", "parse_config", "bind_can", "bind_udp", "connect_udp",
        "poll", "scan", "exit_failure", "abort", "off"}

LoopPcs == {"poll", "scan"}

NoConfig == [can_ifname |-> <<>>, in_port |-> <<>>, out_host |-> <<>>,
             out_port |-> <<>>]

CodecOff ==
    /\ c_pc = "off"
    /\ c_frame = CanFrame(U32(0, 0), 0, Uninit(8, 0))
    /\ c_packed = [aborted |-> FALSE, packed_frame |-> <<>>, packed_frame_size |-> 0]
    /\ c_out = CanFrame(U32(0, 0), 0, Uninit(8, 0))

Init ==
    /\ pc = "main"
    /\ exit_msg = ""
    /\ host_le = TRUE      \* SpecCodec runs the codec on both byte orders
    /\ \E n \in 0..MaxConn :
           argv \in [1..n -> {ValidArg(k) : k \in 0..(n - 1)} \cup {BadArg}]
    /\ \A k \in DOMAIN argv : argv[k] \in {ValidArg(k - 1), BadArg}
    /\ n_connections = 0
    /\ i = 0
    /\ connections = <<>>
    /\ pfds = <<>>
    /\ fds = [f \in FdRange |-> Closed]
    /\ rxq = [f \in FdRange |-> <<>>]
    /\ arrivals = 0
    /\ wake = <<>>
    /\ acq_failed = FALSE
    /\ CodecOff

Exit(msg) ==
    /\ pc' = "exit_failure"
    /\ exit_msg' = msg

\* the ready test of the scan, line 316
Ready(p, k) == "POLLIN" \in p[k].revents

\* the connection of a slot, line 318
conn_of_slot(k) == k \div 2

\* a scan that moves on by a whole connection
main_scan_step_by_two(k) == k + 2

\* the increment of the scan, line 315
main_scan_step(k) == k + 1

\* main, lines 294-302
MainStart ==
    /\ pc = "main"
    /\ IF Len(argv) = 0
       THEN /\ Exit("Usage")
            /\ UNCHANGED <<n_connections, connections, pfds, i>>
       ELSE \E mem_ok \in BOOLEAN :
                IF ~mem_ok
                THEN /\ Exit("Out of memory")
                     /\ UNCHANGED <<n_connections, connections, pfds, i>>
                ELSE /\ n_connections' = Len(argv)
                     /\ connections' =
                            [k \in 0..(Len(argv) - 1) |->
                                [config |-> NoConfig, can_sfd |-> NoFd,
                                 in_sfd |-> NoFd, out_sfd |-> NoFd]]
                     /\ pfds' = [k \in 0..(2 * Len(argv) - 1) |->
                                    [fd |-> NoFd, events |-> {}, revents |-> {}]]
                     /\ i' = 0
                     /\ pc' = "parse_config"
                     /\ UNCHANGED exit_msg
    /\ UNCHANGED <<host_le, argv, fds, rxq, arrivals, wake, acq_failed>>
    /\ UNCHANGED codecVars

\* main, line 305
SetupParseConfig ==
    /\ pc = "parse_config"
    /\ LET r == parse_config(argv[i + 1])
       IN  IF r.ok
           THEN /\ connections' = [connections EXCEPT ![i].config = r.config]
                /\ pc' = "bind_can"
                /\ UNCHANGED exit_msg
           ELSE /\ Exit("Invalid config")
                /\ UNCHANGED connections
    /\ UNCHANGED <<host_le, argv, n_connections, i, pfds, fds, rxq, arrivals,
                   wake, acq_failed>>
    /\ UNCHANGED codecVars

\* setup_connection, line 233
SetupBindCan ==
    /\ pc = "bind_can"
    /\ \E out \in {"ok", "socket", "ioctl", "bind"} :
           LET r == bind_can(i, out, fds)
           IN  /\ fds' = r.fds
               /\ acq_failed' = (acq_failed \/ out # "ok")
               /\ IF r.exit # ""
                  THEN Exit(r.exit) /\ UNCHANGED connections
                  ELSE /\ connections' = [connections EXCEPT ![i].can_sfd = r.sfd]
                       /\ pc' = "bind_udp"
                       /\ UNCHANGED exit_msg
    /\ UNCHANGED <<host_le, argv, n_connections, i, pfds, rxq, arrivals, wake>>
    /\ UNCHANGED codecVars

\* the environment's answers give the program an endpoint: the name resolves
\* and some address takes the bind/connect before any socket() fails
Acquirable(gai_ok, results) ==
    /\ gai_ok
    /\ \E j \in DOMAIN results :
           results[j] = "ok" /\ \A h \in 1..(j - 1) : results[h] = "fail"

\* setup_connection, line 234
SetupBindUdp ==
    /\ pc = "bind_udp"
    /\ \E gai_ok \in BOOLEAN, results \in AddrResults :
           LET r == bind_udp(i, gai_ok, results, fds)
           IN  /\ fds' = r.fds
               /\ acq_failed' = (acq_failed \/ ~Acquirable(gai_ok, results))
               /\ IF r.exit # ""
                  THEN Exit(r.exit) /\ UNCHANGED connections
                  ELSE /\ connections' = [connections EXCEPT ![i].in_sfd = r.sfd]
                       /\ pc' = "connect_udp"
                       /\ UNCHANGED exit_msg
    /\ UNCHANGED <<host_le, argv, n_connections, i, pfds, rxq, arrivals, wake>>
    /\ UNCHANGED codecVars

\* setup_connection, lines 235-236, and main, lines 307-311
SetupConnectUdp ==
    /\ pc = "connect_udp"
    /\ \E gai_ok \in BOOLEAN, results \in AddrResults :
           LET r == connect_udp(i, gai_ok, results, fds)
               conn == [connections[i] EXCEPT !.out_sfd = r.sfd]
           IN  /\ fds' = r.fds
               /\ acq_failed' = (acq_failed \/ ~Acquirable(gai_ok, results))
               /\ IF r.exit # ""
                  THEN Exit(r.exit) /\ UNCHANGED <<connections, pfds, i>>
                  ELSE /\ connections' = [connections EXCEPT ![i] = conn]
                       /\ pfds' = main_set_pfds(pfds, i, conn)
                       /\ i' = i + 1
                       /\ pc' = IF i + 1 < n_connections
                                THEN "parse_config" ELSE "poll"
                       /\ UNCHANGED exit_msg
    /\ UNCHANGED <<host_le, argv, n_connections, rxq, arrivals, wake>>
    /\ UNCHANGED codecVars

\* the environment: a frame reaches a CAN interface, a datagram an IN_PORT
Arrive ==
    /\ pc \in LoopPcs
    /\ arrivals < MaxArrivals
    /\ \E f \in FdRange :
           /\ fds[f].kind \in {"can", "udp_in"}
           /\ \E m \in IF fds[f].kind = "can" THEN BusFrames ELSE Datagrams :
                  rxq' = [rxq EXCEPT ![f] = Append(@, m)]
    /\ arrivals' = arrivals + 1
    /\ UNCHANGED <<pc, exit_msg, host_le, argv, n_connections, i, connections,
                   pfds, fds, wake, acq_failed>>
    /\ UNCHANGED codecVars

\* main, line 313: poll returns with the readable descriptors marked
PollReturns ==
    /\ pc = "poll"
    /\ \E k \in DOMAIN pfds : rxq[pfds[k].fd] # <<>>
    /\ pfds' = [k \in DOMAIN pfds |->
                   [pfds[k] EXCEPT !.revents =
                       IF rxq[pfds[k].fd] # <<>> THEN {"POLLIN"} ELSE {}]]
    /\ i' = 0
    /\ pc' = "scan"
    /\ UNCHANGED <<exit_msg, host_le, argv, n_connections, connections, fds,
                   rxq, arrivals, wake, acq_failed>>
    /\ UNCHANGED codecVars

\* main, lines 313-314: poll fails
PollFails ==
    /\ pc = "poll"
    /\ Exit("poll")
    /\ UNCHANGED <<host_le, argv, n_connections, i, connections, pfds, fds,
                   rxq, arrivals, wake, acq_failed>>
    /\ UNCHANGED codecVars

\* main, lines 316-317
ScanNotReady ==
    /\ pc = "scan"
    /\ i < n_connections * 2
    /\ ~Ready(pfds, i)
    /\ i' = main_scan_step(i)
    /\ UNCHANGED <<pc, exit_msg, host_le, argv, n_connections, connections,
                   pfds, fds, rxq, arrivals, wake, acq_failed>>
    /\ UNCHANGED codecVars

\* the entry of wake for one call of a handler
Dispatched(slot, k, handler, sfd, d) ==
    [slot |-> slot, conn |-> k, handler |-> handler, fd |-> sfd,
     lines |-> d.lines, consumed |-> d.consumed, got |-> d.got,
     send_fd |-> d.send_fd,
     send_sock |-> IF d.send_fd \in FdRange THEN fds[d.send_fd] ELSE Closed,
     sent |-> d.sent, send_ok |-> d.send_ok, aborted |-> d.aborted]

\* a handler whose message stays queued for a later call when its send failed
Handle_requeue_failed(k, handler, sfd, d) ==
    /\ rxq' = IF d.consumed /\ (d.send_fd = NoFd \/ d.send_ok)
              THEN [rxq EXCEPT ![sfd] = Tail(@)] ELSE rxq
    /\ wake' = Append(wake, Dispatched(i, k, handler, sfd, d))
    /\ IF d.aborted
       THEN pc' = "abort" /\ exit_msg' = "Assertion failed: codec" /\ i' = i
       ELSE pc' = pc /\ exit_msg' = exit_msg /\ i' = main_scan_step(i)

\* a handler that leaves in its queue a datagram it did not forward or
\* forwarded clipped (a recv that only peeks at it)
Handle_peek_malformed(k, handler, sfd, d) ==
    /\ rxq' = IF d.consumed
                 /\ (handler = "udp_to_can" =>
                        (Len(d.got) >= PACKED_CAN_FRAME_HDR_SIZE
                         /\ Len(d.got) <= SIZEOF_PACKED_CAN_FRAME))
              THEN [rxq EXCEPT ![sfd] = Tail(@)] ELSE rxq
    /\ wake' = Append(wake, Dispatched(i, k, handler, sfd, d))
    /\ IF d.aborted
       THEN pc' = "abort" /\ exit_msg' = "Assertion failed: codec" /\ i' = i
       ELSE pc' = pc /\ exit_msg' = exit_msg /\ i' = main_scan_step(i)

\* the effect of one call of a handler that read descriptor sfd
Handle(k, handler, sfd, d) ==
    /\ rxq' = IF d.consumed THEN [rxq EXCEPT ![sfd] = Tail(@)] ELSE rxq
    /\ wake' = Append(wake, Dispatched(i, k, handler, sfd, d))
    /\ IF d.aborted
       THEN pc' = "abort" /\ exit_msg' = "Assertion failed: codec" /\ i' = i
       ELSE pc' = pc /\ exit_msg' = exit_msg /\ i' = main_scan_step(i)

\* main, lines 318-321
ScanCanToUdp ==
    /\ pc = "scan"
    /\ i < n_connections * 2
    /\ Ready(pfds, i)
    /\ i % 2 = 0
    /\ LET conn == connections[conn_of_slot(i)]
       IN  IF pfds[i].fd # conn.can_sfd
           THEN /\ pc' = "abort"
                /\ exit_msg' = "Assertion failed: pfds[i].fd == conn->can_sfd"
                /\ UNCHANGED <<i, rxq, wake>>
           ELSE \E env_recv_ok \in BOOLEAN, env_send_ok \in BOOLEAN,
                   g \in StackFill :
                    Handle(conn_of_slot(i), "can_to_udp", conn.can_sfd,
                           can_to_udp(conn, env_recv_ok, g, env_send_ok))
    /\ UNCHANGED <<host_le, argv, n_connections, connections, pfds, fds,
                   arrivals, acq_failed>>
    /\ UNCHANGED codecVars

\* main, lines 318, 322-325
ScanUdpToCan ==
    /\ pc = "scan"
    /\ i < n_connections * 2
    /\ Ready(pfds, i)
    /\ i % 2 # 0
    /\ LET conn == connections[conn_of_slot(i)]
       IN  IF pfds[i].fd # conn.in_sfd
           THEN /\ pc' = "abort"
                /\ exit_msg' = "Assertion failed: pfds[i].fd == conn->in_sfd"
                /\ UNCHANGED <<i, rxq, wake>>
           ELSE \E env_recv_ok \in BOOLEAN, env_send_ok \in BOOLEAN,
                   g \in StackFill :
                    Handle(conn_of_slot(i), "udp_to_can", conn.in_sfd,
                           udp_to_can(conn, env_recv_ok, g, env_send_ok))
    /\ UNCHANGED <<host_le, argv, n_connections, connections, pfds, fds,
                   arrivals, acq_failed>>
    /\ UNCHANGED codecVars

\* main, lines 315 and 312: the scan is over, back to poll
ScanEnd ==
    /\ pc = "scan"
    /\ ~(i < n_connections * 2)
    /\ pc' = "poll"
    /\ wake' = <<>>
    /\ UNCHANGED <<exit_msg, host_le, argv, n_connections, i, connections,
                   pfds, fds, rxq, arrivals, acq_failed>>
    /\ UNCHANGED codecVars

Next ==
    \/ MainStart
    \/ SetupParseConfig
    \/ SetupBindCan
    \/ SetupBindUdp
    \/ SetupConnectUdp
    \/ Arrive
    \/ PollReturns
    \/ PollFails
    \/ ScanNotReady
    \/ ScanCanToUdp
    \/ ScanUdpToCan
    \/ ScanEnd

Spec == Init /\ [][Next]_vars

---------------------------------------------------------------------------
(* The program under fair scheduling *)

\* a step of the event loop: main, lines 312-327
LoopStep ==
    \/ PollReturns
    \/ ScanNotReady
    \/ ScanCanToUdp
    \/ ScanUdpToCan
    \/ ScanEnd

\* the call of can_to_udp at the scan position, its recv returning a frame
ServeCanToUdp ==
    /\ pc = "scan"
    /\ i < n_connections * 2
    /\ Ready(pfds, i)
    /\ i % 2 = 0
    /\ pfds[i].fd = connections[conn_of_slot(i)].can_sfd
    /\ \E env_send_ok \in BOOLEAN, g \in StackFill :
           Handle(conn_of_slot(i), "can_to_udp",
                  connections[conn_of_slot(i)].can_sfd,
                  can_to_udp(connections[conn_of_slot(i)], TRUE, g, env_send_ok))
    /\ UNCHANGED <<host_le, argv, n_connections, connections, pfds, fds,
                   arrivals, acq_failed>>
    /\ UNCHANGED codecVars

\* the call of udp_to_can at the scan position, its recv returning a datagram
ServeUdpToCan ==
    /\ pc = "scan"
    /\ i < n_connections * 2
    /\ Ready(pfds, i)
    /\ i % 2 # 0
    /\ pfds[i].fd = connections[conn_of_slot(i)].in_sfd
    /\ \E env_send_ok \in BOOLEAN, g \in StackFill :
           Handle(conn_of_slot(i), "udp_to_can",
                  connections[conn_of_slot(i)].in_sfd,
                  udp_to_can(connections[conn_of_slot(i)], TRUE, g, env_send_ok))
    /\ UNCHANGED <<host_le, argv, n_connections, connections, pfds, fds,
                   arrivals, acq_failed>>
    /\ UNCHANGED codecVars

\* main is one sequential process: a poll with a readable descriptor returns
\* (readiness is level-triggered), every step of the scan is taken and every
\* call of a handler returns; and the recv of a descriptor that is readable
\* again and again does not fail every time.  Nothing obliges the
\* environment to deliver, or poll to fail.
Fairness ==
    /\ WF_vars(LoopStep)
    /\ SF_vars(ServeCanToUdp)
    /\ SF_vars(ServeUdpToCan)

SpecLive == Spec /\ Fairness

---------------------------------------------------------------------------
(* The codec specification *)

InitCodec ==
    /\ pc = "off"
    /\ exit_msg = ""
    /\ host_le \in BOOLEAN
    /\ argv = <<>>
    /\ n_connections = 0
    /\ i = 0
    /\ connections = <<>>
    /\ pfds = <<>>
    /\ fds = [f \in FdRange |-> Closed]
    /\ rxq = [f \in FdRange |-> <<>>]
    /\ arrivals = 0
    /\ wake = <<>>
    /\ acq_failed = FALSE
    /\ c_pc = "frame"
    /\ c_frame \in CodecFrames
    /\ c_packed = [aborted |-> FALSE, packed_frame |-> <<>>, packed_frame_size |-> 0]
    /\ c_out = CanFrame(U32(0, 0), 0, Uninit(8, 0))

\* pack_can_frame on a local struct packed_can_frame, as can_to_udp calls it
CodecPack ==
    /\ c_pc = "frame"
    /\ \E g \in StackFill :
           c_packed' = pack_can_frame(c_frame, Uninit(SIZEOF_PACKED_CAN_FRAME, g))
    /\ c_pc' = IF c_packed'.aborted THEN "aborted" ELSE "packed"
    /\ UNCHANGED <<c_frame, c_out, host_le>>
    /\ UNCHANGED mainVars

\* unpack_can_frame on the packed bytes with the size pack_can_frame reported,
\* into a local struct can_frame, as udp_to_can calls it
CodecUnpack ==
    /\ c_pc = "packed"
    /\ \E g \in StackFill :
           LET u == unpack_can_frame(c_packed.packed_frame,
                                     c_packed.packed_frame_size,
                                     UninitCanFrame(g))
           IN  /\ c_out' = u.frame
               /\ c_pc' = IF u.aborted THEN "aborted" ELSE "unpacked"
    /\ UNCHANGED <<c_frame, c_packed, host_le>>
    /\ UNCHANGED mainVars

NextCodec == CodecPack \/ CodecUnpack

SpecCodec == InitCodec /\ [][NextCodec]_vars

---------------------------------------------------------------------------
(* The bridge specification: the event loop of one started bridge, fed with
   datagrams of every length *)

\* the longest datagram the environment delivers: two bytes past the 12 of
\* struct packed_can_frame and past the 13 that MSG_TRUNC first reports
MaxLen == 14

\* the datagram of length len: every byte tells its position
DatagramOfLen(len) == [j \in 1..len |-> 16 * j + len]

\* one datagram of every length 0 .. MaxLen
AnyDatagrams == {DatagramOfLen(len) : len \in 0..MaxLen}

\* main at its first poll with the one bridge vcan0:8880:127.0.0.1:9990 set
\* up: bind_can, bind_udp and connect_udp returned descriptors 3, 4 and 5.
\* connect_udp returns 5 with the socket connected, or with the descriptor
\* closed again when connect failed on the only address.  The host is of
\* either byte order.
InitBridge ==
    /\ pc = "poll"
    /\ exit_msg = ""
    /\ host_le \in BOOLEAN
    /\ argv = <<ValidArg(0)>>
    /\ n_connections = 1
    /\ i = 1
    /\ connections =
           [k \in 0..0 |->
               [config |-> parse_config(ValidArg(0)).config,
                can_sfd |-> FIRST_FD, in_sfd |-> FIRST_FD + 1,
                out_sfd |-> FIRST_FD + 2]]
    /\ pfds = main_set_pfds([k \in 0..1 |->
                                [fd |-> NoFd, events |-> {}, revents |-> {}]],
                            0, connections[0])
    /\ \E connected \in BOOLEAN :
           /\ fds = [f \in FdRange |->
                        IF f = FIRST_FD THEN Socket("can", 0)
                        ELSE IF f = FIRST_FD + 1 THEN Socket("udp_in", 0)
                        ELSE IF f = FIRST_FD + 2 /\ connected
                             THEN Socket("udp_out", 0)
                        ELSE Closed]
           /\ acq_failed = ~connected
    /\ rxq = [f \in FdRange |-> <<>>]
    /\ arrivals = 0
    /\ wake = <<>>
    /\ CodecOff

\* the environment: a frame reaches the CAN interface, a datagram of any
\* length the IN_PORT
ArriveAny ==
    /\ pc \in LoopPcs
    /\ arrivals < MaxArrivals
    /\ \E f \in FdRange :
           /\ fds[f].kind \in {"can", "udp_in"}
           /\ \E m \in IF fds[f].kind = "can" THEN BusFrames ELSE AnyDatagrams :
                  rxq' = [rxq EXCEPT ![f] = Append(@, m)]
    /\ arrivals' = arrivals + 1
    /\ UNCHANGED <<pc, exit_msg, host_le, argv, n_connections, i, connections,
                   pfds, fds, wake, acq_failed>>
    /\ UNCHANGED codecVars

\* the environment: what poll announced on a descriptor is gone before the
\* scan reaches it (the kernel discards a datagram whose checksum fails when
\* recv looks at it), so the MSG_DONTWAIT recv finds nothing
Evaporate ==
    /\ pc = "scan"
    /\ \E s \in DOMAIN pfds :
           /\ s >= i
           /\ Ready(pfds, s)
           /\ rxq[pfds[s].fd] # <<>>
           /\ rxq' = [rxq EXCEPT ![pfds[s].fd] = Tail(@)]
    /\ UNCHANGED <<pc, exit_msg, host_le, argv, n_connections, i, connections,
                   pfds, fds, arrivals, wake, acq_failed>>
    /\ UNCHANGED codecVars

NextBridge ==
    \/ ArriveAny
    \/ Evaporate
    \/ PollReturns
    \/ PollFails
    \/ ScanNotReady
    \/ ScanCanToUdp
    \/ ScanUdpToCan
    \/ ScanEnd

SpecBridge == InitBridge /\ [][NextBridge]_vars

---------------------------------------------------------------------------
(* Vocabulary of the properties *)

WakeIdx == DOMAIN wake

\* an error line is the one-word text <<what>>; a frame line has three parts
HasLine(r, what) ==
    \E k \in DOMAIN r.lines :
        Len(r.lines[k].text) = 1 /\ r.lines[k].text[1] = what

\* a call of udp_to_can that received a datagram
GotDatagram(r) == r.handler = "udp_to_can" /\ r.consumed

\* a call of can_to_udp that received a frame
GotFrame(r) == r.handler = "can_to_udp" /\ r.consumed

\* the id a datagram carries in its first four bytes, big-endian
WireId(d) == U32(d[1] * 256 + d[2], d[3] * 256 + d[4])

\* the four bytes of an id, most significant first
WireBytes(id) ==
    <<id.hi \div 256, id.hi % 256, id.lo \div 256, id.lo % 256>>

\* every slot between slot s and the scan position that reported readable
\* has been dispatched after entry k of wake
ServedAfter(k, s) ==
    \A t \in (s + 1)..(i - 1) :
        Ready(pfds, t) => \E j \in WakeIdx : j > k /\ wake[j].slot = t

---------------------------------------------------------------------------
(* C1..C3 *)

\* C1: round trip.  Unpacking the bytes pack_can_frame produced for a frame
\* with can_dlc <= 8, with the size pack_can_frame reported (4 + can_dlc),
\* yields the same id, the same can_dlc and the same can_dlc data bytes; no
\* assertion stops either function.
C1_RoundTrip ==
    /\ c_frame.can_dlc <= 8 => c_pc # "aborted"
    /\ c_pc = "unpacked" =>
           /\ c_packed.packed_frame_size = 4 + c_frame.can_dlc
           /\ c_out.can_id = c_frame.can_id
           /\ c_out.can_dlc = c_frame.can_dlc
           /\ SubSeq(c_out.data, 1, c_out.can_dlc)
                  = SubSeq(c_frame.data, 1, c_frame.can_dlc)

\* an extended-id frame of 3 data bytes went through both functions on a
\* little-endian host, into a struct whose other bytes held stack residue
C1_Witness ==
    /\ c_pc = "unpacked"
    /\ host_le
    /\ c_frame.can_id = U32(32768, 291)
    /\ c_frame.can_dlc = 3
    /\ c_out.data[8] = 204

\* C2: a datagram shorter than 4 bytes (0 included) is dropped: udp_to_can
\* attempts no write, the process goes on, and the scan serves the ready
\* endpoints that follow in the same wake.
C2_ShortDatagramDropped ==
    \A k \in WakeIdx :
        (GotDatagram(wake[k]) /\ Len(wake[k].got) < 4) =>
            /\ wake[k].send_fd = NoFd
            /\ ~wake[k].aborted
            /\ HasLine(wake[k], "message too short")
            /\ pc = "scan"
            /\ i > wake[k].slot
            /\ ServedAfter(k, wake[k].slot)

\* an empty datagram was dropped for one bridge and, later in the same wake,
\* a 3-byte datagram for another
C2_Witness ==
    \E k \in WakeIdx :
        /\ GotDatagram(wake[k])
        /\ wake[k].got = <<>>
        /\ \E j \in WakeIdx :
               j > k /\ GotDatagram(wake[j]) /\ Len(wake[j].got) = 3

\* C3: a datagram longer than 12 bytes is forwarded: udp_to_can writes to the
\* bridge's CAN descriptor the frame of its first 12 bytes (id from bytes
\* 0..3, can_dlc 8, data bytes 4..11) and logs the truncation.
C3_LongDatagramTruncated ==
    \A k \in WakeIdx :
        (GotDatagram(wake[k]) /\ Len(wake[k].got) > 12) =>
            /\ ~wake[k].aborted
            /\ HasLine(wake[k], "message truncated")
            /\ wake[k].send_fd = connections[wake[k].conn].can_sfd
            /\ wake[k].send_sock = Socket("can", wake[k].slot \div 2)
            /\ wake[k].sent = [can_id |-> WireId(wake[k].got), can_dlc |-> 8,
                               data |-> SubSeq(wake[k].got, 5, 12)]

\* a 14-byte datagram was truncated and its frame written to the bus
C3_Witness ==
    \E k \in WakeIdx :
        /\ GotDatagram(wake[k])
        /\ Len(wake[k].got) = 14
        /\ wake[k].send_ok

---------------------------------------------------------------------------
(* C4..C7 *)

\* main has filled the pollfd entries of every connection
LoopStarted ==
    /\ n_connections > 0
    /\ \A k \in DOMAIN pfds : pfds[k].fd # NoFd

\* C4: dispatch goes to the owning bridge and the matching direction.  Every
\* filled pollfd pair holds the bridge's own descriptors (pfds[2k].fd is
\* connections[k].can_sfd, pfds[2k+1].fd is connections[k].in_sfd), the two
\* assertions of the loop never fail, and every call made for slot s is
\* can_to_udp on the CAN socket of bridge s/2 when s is even and udp_to_can
\* on the UDP receive socket of bridge s/2 when s is odd.
C4_DispatchToOwner ==
    /\ \A k \in DOMAIN connections :
           pfds[2 * k].fd # NoFd =>
               /\ pfds[2 * k].fd = connections[k].can_sfd
               /\ pfds[2 * k + 1].fd = connections[k].in_sfd
               /\ fds[pfds[2 * k].fd] = Socket("can", k)
               /\ fds[pfds[2 * k + 1].fd] = Socket("udp_in", k)
    /\ pc \in LoopPcs => LoopStarted
    /\ exit_msg \notin {"Assertion failed: pfds[i].fd == conn->can_sfd",
                        "Assertion failed: pfds[i].fd == conn->in_sfd"}
    /\ \A j \in WakeIdx :
           /\ wake[j].conn = wake[j].slot \div 2
           /\ wake[j].fd = pfds[wake[j].slot].fd
           /\ wake[j].lines[1].who = str_config(connections[wake[j].slot \div 2].config)
           /\ IF wake[j].slot % 2 = 0
              THEN /\ wake[j].handler = "can_to_udp"
                   /\ fds[wake[j].fd] = Socket("can", wake[j].slot \div 2)
              ELSE /\ wake[j].handler = "udp_to_can"
                   /\ fds[wake[j].fd] = Socket("udp_in", wake[j].slot \div 2)

\* in one wake the UDP endpoint of bridge 0 and the bus endpoint of bridge 1
\* were both dispatched
C4_Witness ==
    \E j, k \in WakeIdx :
        /\ wake[j].slot = 1 /\ wake[j].consumed
        /\ wake[k].slot = 2 /\ wake[k].consumed

\* C5: within one wake every endpoint that reported readable is dispatched
\* exactly once, no other endpoint is dispatched, the dispatches are in
\* ascending slot order, and main is back in poll only with the scan at its
\* end.
C5_ScanOrder ==
    /\ pc = "scan" =>
           /\ \A j, k \in WakeIdx : j < k => wake[j].slot < wake[k].slot
           /\ {wake[j].slot : j \in WakeIdx}
                  = {s \in 0..(i - 1) : Ready(pfds, s)}
           /\ i <= 2 * n_connections
    /\ (pc = "poll" /\ \E s \in DOMAIN pfds : Ready(pfds, s)) =>
           i = 2 * n_connections

\* a scan over two bridges is at its end: slots 1 and 2 were dispatched in
\* that order, slots 0 and 3 had not reported readable
C5_Witness ==
    /\ pc = "scan"
    /\ n_connections = 2
    /\ i = 4
    /\ Len(wake) = 2
    /\ wake[1].slot = 1
    /\ wake[2].slot = 2
    /\ ~Ready(pfds, 0)
    /\ ~Ready(pfds, 3)

\* C6: when the acquisition of an endpoint fails for a bridge (bus bind, UDP
\* bind, or UDP connect on every resolved address), the process ends with a
\* failure status before the event loop starts.
C6_AcquisitionFailureIsFatal ==
    acq_failed => pc = "exit_failure"

\* C7: once the event loop has started the process ends only by a failing
\* poll, between two scans; no receive error, send error, short or long
\* datagram or bus frame ends it.
C7_OnlyPollTerminates ==
    (LoopStarted /\ pc \notin LoopPcs) =>
        /\ pc = "exit_failure"
        /\ exit_msg = "poll"
        /\ wake = <<>>

\* a scan in which one call logged a failed send and a later one a failed
\* recv is still going on
C7_Witness ==
    /\ pc = "scan"
    /\ \E j, k \in WakeIdx :
           /\ j < k
           /\ HasLine(wake[j], "send failed")
           /\ HasLine(wake[k], "recv failed")

---------------------------------------------------------------------------
(* C8..C10 *)

\* the frame 123#DEADBEEF as recv hands it to can_to_udp
Frame123 == CanFrame(U32(0, 291), 4, <<222, 173, 190, 239, 0, 0, 0, 0>>)

\* the datagram 000000ABAB
DatagramABAB == <<0, 0, 0, 171, 171>>

\* C8: for every frame can_to_udp receives, the bytes it hands to send are
\* the id as four big-endian bytes followed by the can_dlc data bytes,
\* 4 + can_dlc in all (00 00 01 23 DE AD BE EF for 123#DEADBEEF), and the one
\* send goes to the bridge's own connected UDP send socket.
C8_PackedDatagramSent ==
    \A k \in WakeIdx :
        GotFrame(wake[k]) =>
            /\ wake[k].sent = WireBytes(wake[k].got.can_id)
                                \o SubSeq(wake[k].got.data, 1, wake[k].got.can_dlc)
            /\ Len(wake[k].sent) = 4 + wake[k].got.can_dlc
            /\ wake[k].got = Frame123 =>
                   wake[k].sent = <<0, 0, 1, 35, 222, 173, 190, 239>>
            /\ wake[k].send_fd = connections[wake[k].conn].out_sfd
            /\ wake[k].send_sock = Socket("udp_out", wake[k].conn)

\* C9 as the spec states it: the datagram 000000ABAB yields the bus frame
\* with id 0x00 and the one data byte AB.
C9_IdZero ==
    \A k \in WakeIdx :
        (GotDatagram(wake[k]) /\ wake[k].got = DatagramABAB) =>
            /\ wake[k].send_fd = connections[wake[k].conn].can_sfd
            /\ wake[k].sent = [can_id |-> U32(0, 0), can_dlc |-> 1,
                               data |-> <<171>>]

\* C9, amended: the datagram 000000ABAB yields the bus frame with id 0xAB
\* (its first four bytes 00 00 00 AB, big-endian) and the one data byte AB.
C9_IdAB ==
    \A k \in WakeIdx :
        (GotDatagram(wake[k]) /\ wake[k].got = DatagramABAB) =>
            /\ wake[k].send_fd = connections[wake[k].conn].can_sfd
            /\ wake[k].send_sock = Socket("can", wake[k].conn)
            /\ wake[k].sent = [can_id |-> U32(0, 171), can_dlc |-> 1,
                               data |-> <<171>>]

\* the datagram 000000ABAB was received and its frame written to the bus
C9_Witness ==
    \E k \in WakeIdx :
        /\ GotDatagram(wake[k])
        /\ wake[k].got = DatagramABAB
        /\ wake[k].send_ok

\* what a call hands to send, from what it received alone
Forwarded(r) ==
    IF r.handler = "udp_to_can"
    THEN [can_id |-> WireId(r.got), can_dlc |-> Min(Len(r.got), 12) - 4,
          data |-> SubSeq(r.got, 5, Min(Len(r.got), 12))]
    ELSE WireBytes(r.got.can_id) \o SubSeq(r.got.data, 1, r.got.can_dlc)

\* the call ended in one of the per-event errors
Errored(r) ==
    \/ HasLine(r, "recv failed")
    \/ HasLine(r, "message too short")
    \/ HasLine(r, "message truncated")
    \/ HasLine(r, "send failed")

\* every slot below the scan position that reported readable was dispatched
C10_NotPrevented ==
    pc = "scan" =>
        \A s \in 0..(i - 1) :
            Ready(pfds, s) => \E j \in WakeIdx : wake[j].slot = s

\* a dispatch reads the head of its own endpoint's queue and nothing else,
\* leaves every other queue as it was, hands to send what that head alone
\* determines, whatever the earlier calls of the wake did, and lets the scan
\* go on
C10_Step ==
    (pc = "scan" /\ Len(wake') = Len(wake) + 1) =>
        LET r == wake'[Len(wake')]
            own == pfds[i].fd
        IN  /\ fds[own].conn = r.conn
            /\ r.fd = own
            /\ r.consumed => r.got = Head(rxq[own])
            /\ \A f \in FdRange \ {own} : rxq'[f] = rxq[f]
            /\ r.send_fd # NoFd <=>
                   (r.consumed /\ (r.handler = "udp_to_can" => Len(r.got) >= 4))
            /\ r.send_fd # NoFd => r.sent = Forwarded(r)
            /\ pc' = "scan"
            /\ i' = i + 1

\* C10: independence within a wake.  An error in the dispatch for one bridge
\* neither prevents nor changes the dispatch for another bridge of the same
\* wake: every endpoint that reported readable is still dispatched, and what
\* each dispatch forwards is determined by the head of its own queue alone.
C10_Independent == []C10_NotPrevented /\ [][C10_Step]_vars

\* in one wake the call for bridge 0 ended in an error and the later call for
\* bridge 1 forwarded the frame of its own datagram
C10_Witness ==
    \E j, k \in WakeIdx :
        /\ j < k
        /\ wake[j].conn = 0
        /\ Errored(wake[j])
        /\ wake[k].conn = 1
        /\ wake[k].handler = "udp_to_can"
        /\ wake[k].send_ok
        /\ wake[k].sent = Forwarded(wake[k])

---------------------------------------------------------------------------
(* C11..C19 *)

\* the call handed something to send
Attempted(r) == r.send_fd # NoFd

\* C11: sizes of what the program sends.  Every datagram can_to_udp hands to
\* send is 4 to 12 bytes long, every frame udp_to_can hands to send has
\* can_dlc 0 to 8 and that many data bytes, whatever the length of the
\* datagram received; and a send that succeeds on a UDP send socket comes
\* from can_to_udp, one that succeeds on a CAN socket from udp_to_can.
C11_SizesBounded ==
    \A k \in WakeIdx :
        /\ (wake[k].handler = "can_to_udp" /\ Attempted(wake[k])) =>
               /\ Len(wake[k].sent) >= 4
               /\ Len(wake[k].sent) <= 12
        /\ (wake[k].handler = "udp_to_can" /\ Attempted(wake[k])) =>
               /\ wake[k].sent.can_dlc \in 0..8
               /\ Len(wake[k].sent.data) = wake[k].sent.can_dlc
        /\ wake[k].send_ok =>
               wake[k].send_sock.kind =
                   IF wake[k].handler = "can_to_udp" THEN "udp_out" ELSE "can"

\* in one wake a frame of 8 data bytes went out as a 12-byte datagram and a
\* datagram of the greatest length went to the bus as a frame of can_dlc 8
C11_Witness ==
    \E j, k \in WakeIdx :
        /\ wake[j].handler = "can_to_udp"
        /\ wake[j].send_ok
        /\ Len(wake[j].sent) = 12
        /\ wake[k].handler = "udp_to_can"
        /\ wake[k].send_ok
        /\ Len(wake[k].got) = MaxLen
        /\ wake[k].sent.can_dlc = 8

\* the direction a handler prints
DirOf(handler) == IF handler = "can_to_udp" THEN "CAN->UDP" ELSE "UDP->CAN"

\* the line prints a frame: "<can_id>#<data>"
IsFrameLine(l) == Len(l.text) = 3

\* the line is the one-word error text what
IsErrorLine(l, what) == Len(l.text) = 1 /\ l.text[1] = what

\* every line of the call carries the identity of the call's bridge and the
\* direction of its handler
LinesNameBridge(r) ==
    \A k \in DOMAIN r.lines :
        /\ r.lines[k].who = str_config(connections[r.conn].config)
        /\ r.lines[k].dir = DirOf(r.handler)

\* C12 as the spec states it: each readiness event produces exactly one log
\* line, carrying the bridge identity and the direction.
C12_OneLinePerEvent ==
    \A k \in WakeIdx :
        /\ Len(wake[k].lines) = 1
        /\ LinesNameBridge(wake[k])

\* C12, amended: each readiness event produces one to three log lines, each
\* carrying the bridge identity and the direction.  A failed recv or a
\* too-short datagram gives exactly one line.  Anything else gives exactly
\* one frame line, with the truncation warning before it exactly when the
\* datagram was longer than 12 bytes and the send-failed line after it
\* exactly when the send failed: a send that fails on every event gives two
\* lines per event, the frame and the error (three after a truncation).
C12_LinesPerEvent ==
    \A k \in WakeIdx :
        LET r == wake[k]
            n == Len(r.lines)
            long == r.handler = "udp_to_can" /\ r.consumed /\ Len(r.got) > 12
            failed == Attempted(r) /\ ~r.send_ok
        IN  /\ LinesNameBridge(r)
            /\ ~r.consumed => (n = 1 /\ IsErrorLine(r.lines[1], "recv failed"))
            /\ (r.consumed /\ ~Attempted(r)) =>
                   (n = 1 /\ IsErrorLine(r.lines[1], "message too short"))
            /\ Attempted(r) =>
                   /\ n = 1 + (IF long THEN 1 ELSE 0) + (IF failed THEN 1 ELSE 0)
                   /\ long => IsErrorLine(r.lines[1], "message truncated")
                   /\ IsFrameLine(r.lines[IF long THEN 2 ELSE 1])
                   /\ failed => IsErrorLine(r.lines[n], "send failed")

\* in one wake a frame whose send failed left two lines and a truncated
\* datagram whose send failed left three
C12_Witness ==
    \E j, k \in WakeIdx :
        /\ wake[j].handler = "can_to_udp"
        /\ Len(wake[j].lines) = 2
        /\ wake[k].handler = "udp_to_can"
        /\ Len(wake[k].lines) = 3

\* the process ended in err("poll")
PollFailed == pc = "exit_failure" /\ exit_msg = "poll"

\* no frame and no datagram waits in any receive queue
Drained == \A f \in FdRange : rxq[f] = <<>>

\* the call took a frame, or a datagram of at least 4 bytes, from its queue
TookRelayable(r) ==
    r.consumed /\ (r.handler = "udp_to_can" => Len(r.got) >= 4)

\* the call handed what it took to send on its bridge's own endpoint of the
\* other side: udp_to_can the frame to the CAN socket, can_to_udp the
\* datagram to the connected UDP send socket
RelayedToOwn(r) ==
    /\ Attempted(r)
    /\ r.sent = Forwarded(r)
    /\ IF r.handler = "udp_to_can"
       THEN /\ r.send_fd = connections[r.conn].can_sfd
            /\ r.send_sock = Socket("can", r.conn)
       ELSE /\ r.send_fd = connections[r.conn].out_sfd
            /\ r.send_sock = Socket("udp_out", r.conn)

\* a queue gets shorter only by a call of a handler
LeavesByDispatch ==
    \A f \in FdRange :
        Len(rxq'[f]) < Len(rxq[f]) =>
            /\ Len(wake') = Len(wake) + 1
            /\ wake'[Len(wake')].fd = f
            /\ rxq'[f] = Tail(rxq[f])

\* C13: liveness.  Unless poll fails, every datagram of at least 4 bytes
\* queued on a bridge's UDP receive socket is eventually written as a frame
\* to that bridge's CAN socket, and every frame queued on a bridge's CAN
\* socket is eventually sent as a datagram on that bridge's connected UDP
\* send socket, whatever arrives for the other bridges: every queue is
\* eventually drained for good (the environment delivers MaxArrivals
\* messages at most), a message leaves its queue only by a call of its
\* bridge's handler, and that call hands it to the bridge's own endpoint.
C13_EventuallyRelayed ==
    /\ <>[](PollFailed \/ Drained)
    /\ [][LeavesByDispatch]_vars
    /\ [](\A k \in WakeIdx : TookRelayable(wake[k]) => RelayedToOwn(wake[k]))

\* one call of a handler, as a step: one entry more in wake; at most the
\* head of the call's own queue is taken and every other queue is left
\* alone; a send is attempted only for what this very call received, and is
\* what that message alone determines; whether the send failed or not the
\* message is gone from the queue and the scan moves on to the next slot
C14_Step ==
    (pc = "scan" /\ Len(wake') > Len(wake)) =>
        LET r == wake'[Len(wake')]
            own == pfds[i].fd
        IN  /\ Len(wake') = Len(wake) + 1
            /\ SubSeq(wake', 1, Len(wake)) = wake
            /\ r.slot = i
            /\ IF r.consumed
               THEN /\ rxq[own] # <<>>
                    /\ r.got = Head(rxq[own])
                    /\ rxq'[own] = Tail(rxq[own])
               ELSE /\ r.got = <<>>
                    /\ rxq'[own] = rxq[own]
            /\ \A f \in FdRange \ {own} : rxq'[f] = rxq[f]
            /\ Attempted(r) => (r.consumed /\ r.sent = Forwarded(r))
            /\ ~Attempted(r) => (r.sent = <<>> /\ ~r.send_ok)
            /\ i' = i + 1

\* C14: one event, one unit.  Each call of udp_to_can or can_to_udp does one
\* non-blocking receive, which takes at most the head of the call's own
\* queue, and at most one send, of what this call received; after a failed
\* send the message is not put back and the call is not repeated; nothing a
\* call received takes part in a later call.
C14_OneUnitPerCall == [][C14_Step]_vars

\* two messages waited on one descriptor; the call took the first, its send
\* failed, and the scan has moved on with the second still queued
C14_Witness ==
    /\ pc = "scan"
    /\ \E k \in WakeIdx :
           /\ Attempted(wake[k])
           /\ ~wake[k].send_ok
           /\ i > wake[k].slot
           /\ Len(rxq[wake[k].fd]) = 1

\* the scan stands at a slot that poll reported readable and whose queue is
\* empty by now
EmptyAtDispatch ==
    /\ pc = "scan"
    /\ i < n_connections * 2
    /\ Ready(pfds, i)
    /\ rxq[pfds[i].fd] = <<>>

\* a call whose recv failed, as a step: it takes nothing from any queue,
\* prints the one line "recv failed" with the bridge and the direction, hands
\* nothing to send, trips no assertion, and the scan moves on
C15_Step ==
    (pc = "scan" /\ Len(wake') > Len(wake) /\ ~wake'[Len(wake')].consumed) =>
        LET r == wake'[Len(wake')]
        IN  /\ rxq' = rxq
            /\ Len(r.lines) = 1
            /\ IsErrorLine(r.lines[1], "recv failed")
            /\ LinesNameBridge(r)
            /\ ~Attempted(r)
            /\ ~r.send_ok
            /\ ~r.aborted
            /\ pc' = "scan"
            /\ i' = i + 1

\* C15: a failed receive.  In either direction, when the MSG_DONTWAIT recv of
\* a call fails, the call prints the error and returns: it attempts no send
\* and takes nothing from the descriptor.  When what poll announced is no
\* longer there the call is still made and its recv fails: the call does not
\* wait for data, and every call on an empty queue is of this kind.
C15_RecvFailure ==
    /\ [][C15_Step]_vars
    /\ [](EmptyAtDispatch => ENABLED (ScanCanToUdp \/ ScanUdpToCan))
    /\ [][(EmptyAtDispatch /\ Len(wake') > Len(wake))
             => ~wake'[Len(wake')].consumed]_vars

\* in one wake the recv of can_to_udp failed with its frame still queued and
\* the recv of udp_to_can failed because the datagram was gone
C15_Witness ==
    \E j, k \in WakeIdx :
        /\ wake[j].handler = "can_to_udp"
        /\ ~wake[j].consumed
        /\ rxq[wake[j].fd] # <<>>
        /\ wake[k].handler = "udp_to_can"
        /\ ~wake[k].consumed
        /\ rxq[wake[k].fd] = <<>>

\* the call read its own bridge's endpoint of its direction: can_to_udp the
\* CAN socket, udp_to_can the UDP receive socket
ReadsOwn(r) ==
    IF r.handler = "can_to_udp"
    THEN /\ r.fd = connections[r.conn].can_sfd
         /\ fds[r.fd] = Socket("can", r.conn)
    ELSE /\ r.fd = connections[r.conn].in_sfd
         /\ fds[r.fd] = Socket("udp_in", r.conn)

\* what the call handed to send went to its own bridge's endpoint of the
\* other side: from can_to_udp to the UDP send socket, from udp_to_can to the
\* CAN socket
WritesOwn(r) ==
    Attempted(r) =>
        IF r.handler = "can_to_udp"
        THEN /\ r.send_fd = connections[r.conn].out_sfd
             /\ r.send_sock = Socket("udp_out", r.conn)
        ELSE /\ r.send_fd = connections[r.conn].can_sfd
             /\ r.send_sock = Socket("can", r.conn)

\* no descriptor that poll watches, and none a handler read, is a UDP send
\* socket
SendNeverWatched ==
    /\ \A k \in DOMAIN pfds :
           pfds[k].fd # NoFd => fds[pfds[k].fd].kind # "udp_out"
    /\ \A k \in WakeIdx : fds[wake[k].fd].kind # "udp_out"

\* once the loop runs, the bridges, their descriptors, the sockets behind
\* them and the watched descriptors stay as they are
FixedAfterStartup ==
    pc \in LoopPcs =>
        /\ n_connections' = n_connections
        /\ connections' = connections
        /\ fds' = fds
        /\ DOMAIN pfds' = DOMAIN pfds
        /\ \A k \in DOMAIN pfds :
               /\ pfds'[k].fd = pfds[k].fd
               /\ pfds'[k].events = pfds[k].events

\* a call changes the queue of the descriptor it read and no other
OthersUntouched ==
    (pc = "scan" /\ Len(wake') > Len(wake)) =>
        \A f \in FdRange \ {wake'[Len(wake')].fd} : rxq'[f] = rxq[f]

\* C16: a dispatch for bridge b touches only b's endpoints.  can_to_udp reads
\* b's CAN socket and sends on b's UDP send socket, udp_to_can reads b's UDP
\* receive socket and sends on b's CAN socket; the queues of every other
\* descriptor are left as they were; no UDP send socket is watched or read;
\* bridges, descriptors and watched descriptors do not change once the loop
\* runs.
C16_OwnEndpointsOnly ==
    /\ [](\A k \in WakeIdx : ReadsOwn(wake[k]) /\ WritesOwn(wake[k]))
    /\ []SendNeverWatched
    /\ [][OthersUntouched]_vars
    /\ [][FixedAfterStartup]_vars

\* C17: a datagram of L bytes, 4 <= L <= 12, goes to the bridge's CAN socket
\* as the frame whose id is the big-endian value of bytes 0..3, whose can_dlc
\* is L - 4 and whose data are bytes 4..L-1: can_dlc 0 for L = 4, can_dlc 8
\* for L = 12; no truncation is logged, for L = 12 neither.
C17_InRangeDatagram ==
    \A k \in WakeIdx :
        LET r == wake[k]
            L == Len(r.got)
        IN  (GotDatagram(r) /\ L >= 4 /\ L <= 12) =>
                /\ ~r.aborted
                /\ r.send_fd = connections[r.conn].can_sfd
                /\ r.send_sock = Socket("can", r.conn)
                /\ r.sent.can_id = WireId(r.got)
                /\ r.sent.can_dlc = L - 4
                /\ r.sent.data = SubSeq(r.got, 5, L)
                /\ Len(r.sent.data) = L - 4
                /\ ~HasLine(r, "message truncated")
                /\ IsFrameLine(r.lines[1])
                /\ r.lines[1].text = <<WireId(r.got), "#", SubSeq(r.got, 5, L)>>

\* a 12-byte datagram went to the bus as a frame of can_dlc 8 with a single
\* log line, and a 4-byte datagram waits behind it
C17_Witness ==
    \E k \in WakeIdx :
        /\ GotDatagram(wake[k])
        /\ Len(wake[k].got) = 12
        /\ wake[k].send_ok
        /\ wake[k].sent.can_dlc = 8
        /\ Len(wake[k].lines) = 1
        /\ rxq[wake[k].fd] = <<DatagramOfLen(4)>>

\* C18: the assertions of unpack_can_frame.  udp_to_can calls
\* unpack_can_frame exactly for the datagrams of at least 4 bytes, with the
\* length clipped to 12, so that both assertions (size <= 12, and
\* size - 4 <= 8 in size_t arithmetic) hold on every call: no call of
\* udp_to_can ends in an abort, whatever length recv reported (0, 1..3,
\* 4..12, more than 12).
C18_UnpackAssertionsHold ==
    /\ pc # "abort"
    /\ \A k \in WakeIdx :
           /\ ~wake[k].aborted
           /\ GotDatagram(wake[k]) =>
                  /\ Attempted(wake[k]) <=> Len(wake[k].got) >= 4
                  /\ Attempted(wake[k]) =>
                         wake[k].sent.can_dlc = Min(Len(wake[k].got), 12) - 4

\* unpack_can_frame was called for a 13-byte datagram, clipped to 12, and
\* returned; a 3-byte datagram waits behind it
C18_Witness ==
    \E k \in WakeIdx :
        /\ GotDatagram(wake[k])
        /\ Len(wake[k].got) = 13
        /\ Attempted(wake[k])
        /\ ~wake[k].aborted
        /\ rxq[wake[k].fd] = <<DatagramOfLen(3)>>

\* a call of udp_to_can that looked at a datagram shorter than 4 bytes or
\* longer than 12, as a step: the datagram was the head of the call's queue
\* and is gone from it after the call, so the next call on the descriptor
\* sees the datagram behind it, and none if there was none
C19_Step ==
    (pc = "scan" /\ Len(wake') > Len(wake)) =>
        LET r == wake'[Len(wake')]
            own == pfds[i].fd
            rejected == HasLine(r, "message too short")
            clipped == HasLine(r, "message truncated")
        IN  r.handler = "udp_to_can" =>
                /\ (rejected \/ clipped) =>
                       /\ rxq[own] # <<>>
                       /\ r.got = Head(rxq[own])
                       /\ rejected <=> Len(r.got) < 4
                       /\ clipped <=> Len(r.got) > 12
                       /\ rxq'[own] = Tail(rxq[own])
                /\ (rxq[own] # <<>> /\ ~HasLine(r, "recv failed")
                    /\ (Len(Head(rxq[own])) < 4 \/ Len(Head(rxq[own])) > 12)) =>
                       (rejected \/ clipped)

\* C19: a malformed datagram is consumed.  A datagram that udp_to_can
\* rejects as too short, or forwards clipped, is taken off the receive queue
\* by the call that looks at it (MSG_TRUNC clips it, it does not leave it
\* queued), so no second call sees it and it cannot keep the descriptor
\* readable.
C19_MalformedConsumed == [][C19_Step]_vars

\* the longest datagram was clipped and forwarded and is gone from the
\* queue, whose head is now a 2-byte datagram
C19_Witness ==
    \E k \in WakeIdx :
        /\ GotDatagram(wake[k])
        /\ Len(wake[k].got) = MaxLen
        /\ HasLine(wake[k], "message truncated")
        /\ rxq[wake[k].fd] = <<DatagramOfLen(2)>>

=============================================================================
